---- MODULE Spec2Model ----
(***************************************************************************)
(* A model of js-file-monitor: the fingerprint store and the alert gate of *)
(* src/api/app.py (tables js_files and alerts behind the handlers          *)
(* check_new_files, register_files, should_alert and record_alert) and the *)
(* snapshot diff of src/scripts/compare_changes.py.                        *)
(*                                                                         *)
(* Time is counted in days.  A handler runs on its own sqlite3 connection; *)
(* python's sqlite3 opens a transaction before the first UPDATE/INSERT and *)
(* the statements of that transaction reach the database file only at      *)
(* conn.commit(); a connection dropped without commit rolls back.          *)
(*                                                                         *)
(*   Spec      requests to the store, one at a time                        *)
(*   SpecGate  rounds of the gate: should_alert, notify, record_alert      *)
(*   SpecDiff  compare_files on every pair of small file lists             *)
(***************************************************************************)
EXTENDS FiniteSets, Integers, Sequences, TLC

\* ------------------------------------------------------------------ bounds
MaxTime == 1        \* last day on the clock of the store specification
MaxGateTime == 8    \* last day on the clock of the gate specification
MaxRounds == 3      \* gate rounds (should_alert [, notify, record_alert])
MaxClock == 11       \* last second on the clock of the snapshot specification
MaxPages == 3       \* largest max_pages given to crawl_for_js

\* ------------------------------------------------------- program constants
WindowDays == 7     \* timedelta(days=7) in should_alert

\* ------------------------------------------------------------ value domains
Domains == {"example.com", "other.org"}
Monitored == {"example.com"}      \* the site whose requests are followed
Urls == {"a.js", "b.js"}
Hashes == {"h1", "h2"}
DiffUrls == {"a.js", "b.js", "c.js"}
DiffHashes == {"h1", "h2", "h3"}
Threads == {1, 2}
NoKey == "<no such key>"      \* a JSON object that lacks the key

\* A file dict of a request: {url, filename, hash}; hash = NoKey stands for
\* a dict without the 'hash' key.
FileDict(u, h) == [url |-> u, filename |-> u, hash |-> h]

\* Lists of file dicts over the hash set H with pairwise distinct URLs, as
\* crawl_for_js returns them (the values of a dict keyed by URL).  URLs are
\* interchangeable, so the lists are taken in one URL order.
Inventories(H) ==
    {<<>>}
    \cup {<<FileDict(u, h)>> : u \in Urls, h \in H}
    \cup {<<FileDict("a.js", h1), FileDict("b.js", h2)>> : h1 \in H, h2 \in H}

WellFormed(files) == \A i \in 1..Len(files) : files[i].hash # NoKey
UrlsOf(files) == {files[i].url : i \in 1..Len(files)}

\* What a client may post as 'files': an inventory, or one whose last entry
\* lacks its 'hash'.
FileLists ==
    Inventories(Hashes)
    \cup {[inv EXCEPT ![Len(inv)].hash = NoKey] :
            inv \in {x \in Inventories(Hashes) : x # <<>> /\ x[1].hash = "h1"}}

VARIABLES
    now,        \* datetime.now(), in days
    js_files,   \* committed rows of table js_files
    alerts,     \* committed rows of table alerts
    pc,         \* per request thread: position in its handler
    req,        \* per request thread: request.json and the handler's locals
    view,       \* per request thread: the connection's open transaction
    before,     \* per request thread: js_files when the handler was entered
    resp,       \* per request thread: the response being returned
    prevReg,    \* the last register_files request that completed
    notified,   \* the notifications sent so far
    recorded,   \* per alert key: the day of the last record_alert request
    rounds,     \* gate rounds started so far
    old_files,  \* compare_files: the previous snapshot's file list
    new_files,  \* compare_files: the current file list
    diff,       \* compare_files: the returned dict
    web,        \* the site being crawled: links and scripts of each page
    max_pages,  \* crawl_for_js: its parameter
    visited,    \* crawl_for_js: the set of pages fetched
    to_visit,   \* crawl_for_js: the list of pages to fetch
    all_js_files, \* crawl_for_js: the dict of files found, keyed by URL
    failed,     \* script URLs for which get_file_hash returned ""
    cpc,        \* position of the crawl run
    order,      \* the pages of visited in the order they were added
    fetch_failed, \* pages for which get_page_content returned ""
    hashed,     \* script URLs given to get_file_hash for the last page
    doc,        \* extraction: the page being parsed and what it references
    html_js,    \* extraction: what extract_js_from_html returned
    text_js,    \* extraction: what extract_from_response_text returned
    snapshot_dir, \* the files of the domain's snapshot directory
    latest,     \* what get_latest_snapshot returned
    clock       \* time.strftime: the wall clock in seconds

storeVars == <<js_files, view, before, prevReg>>
gateVars == <<alerts, notified, recorded, rounds>>
diffVars == <<old_files, new_files, diff>>
crawlVars ==
    <<web, max_pages, visited, to_visit, all_js_files, failed, cpc, order,
      fetch_failed, hashed>>
extractVars == <<doc, html_js, text_js>>
snapVars == <<snapshot_dir, latest, clock>>
vars ==
    <<now, pc, req, resp, storeVars, gateVars, diffVars, crawlVars, extractVars,
      snapVars>>

NoReq == [op |-> "none"]
NoTxn == [open |-> FALSE, tbl |-> {}]
NoResp == [status |-> 0]

\* --------------------------------------------------------- table js_files
Max(S) == CHOOSE x \in S : \A y \in S : y <= x

\* INTEGER PRIMARY KEY AUTOINCREMENT: one more than the largest id.
NextId(tbl) == IF tbl = {} THEN 1 ELSE Max({r.id : r \in tbl}) + 1

\* DELETE FROM js_files WHERE domain=? in place of the soft deactivation.
MarkInactive_deletes(tbl, d) == {r \in tbl : r.domain # d}

\* register_files without its first UPDATE.
MarkInactive_skipped(tbl, d) == tbl

\* UPDATE js_files SET is_active=0 WHERE domain=?
MarkInactive(tbl, d) ==
    {IF r.domain = d THEN [r EXCEPT !.is_active = FALSE] ELSE r : r \in tbl}

\* The SELECT without its domain condition.
SelectIds_anyDomain(tbl, d, u) == {r.id : r \in {x \in tbl : x.url = u}}

\* SELECT id FROM js_files WHERE domain=? AND url=?
SelectIds(tbl, d, u) == {r.id : r \in {x \in tbl : x.domain = d /\ x.url = u}}

\* The UPDATE also writing first_seen.
UpdateRow_resetsFirstSeen(tbl, id, h, t) ==
    {IF r.id = id
       THEN [r EXCEPT !.hash = h, !.first_seen = t, !.last_seen = t,
                      !.is_active = TRUE]
       ELSE r : r \in tbl}

\* The UPDATE without is_active=1.
UpdateRow_keepsFlag(tbl, id, h, t) ==
    {IF r.id = id THEN [r EXCEPT !.hash = h, !.last_seen = t] ELSE r : r \in tbl}

\* UPDATE js_files SET hash=?, last_seen=?, is_active=1 WHERE id=?
UpdateRow(tbl, id, h, t) ==
    {IF r.id = id
       THEN [r EXCEPT !.hash = h, !.last_seen = t, !.is_active = TRUE]
       ELSE r : r \in tbl}

\* INSERT INTO js_files (domain, url, filename, hash, first_seen, last_seen);
\* is_active takes its DEFAULT 1.
InsertRow(tbl, d, file, t) ==
    tbl \cup {[id |-> NextId(tbl), domain |-> d, url |-> file.url,
               filename |-> file.filename, hash |-> file.hash,
               first_seen |-> t, last_seen |-> t, is_active |-> TRUE]}

\* The loop without its SELECT: every file is inserted.
Upsert_alwaysInserts(tbl, d, file, t) == InsertRow(tbl, d, file, t)

\* One iteration of the loop of register_files.
Upsert(tbl, d, file, t) ==
    LET ids == SelectIds(tbl, d, file.url) IN
    IF ids # {}
      THEN UpdateRow(tbl, CHOOSE id \in ids : TRUE, file.hash, t)
      ELSE InsertRow(tbl, d, file, t)

\* The loop of register_files over a list whose dicts have all their keys.
RECURSIVE UpsertAll(_, _, _, _)
UpsertAll(tbl, d, files, t) ==
    IF files = <<>>
      THEN tbl
      ELSE UpsertAll(Upsert(tbl, d, Head(files), t), d, Tail(files), t)

\* What a register_files request that commits makes of table tbl.
register_files(tbl, d, files, t) == UpsertAll(MarkInactive(tbl, d), d, files, t)

\* The SELECT without its is_active condition.
ActiveRows_all(tbl, d) == {r \in tbl : r.domain = d}

\* SELECT url, hash, filename FROM js_files WHERE domain=? AND is_active=1
ActiveRows(tbl, d) == {r \in tbl : r.domain = d /\ r.is_active}

\* The body of check_new_files: known_files is keyed by url.
check_new_files(tbl, d, files) ==
    LET known == ActiveRows(tbl, d)
        knownUrls == {r.url : r \in known}
        knownHash(u) == (CHOOSE r \in known : r.url = u).hash
        isNew(f) == f.url \notin knownUrls
        isModified(f) == f.url \in knownUrls /\ knownHash(f.url) # f.hash
    IN [new_files |-> SelectSeq(files, isNew),
        modified_files |-> SelectSeq(files, isModified),
        total_current |-> Len(files),
        total_known |-> Cardinality(knownUrls)]

\* ------------------------------------------------------------ table alerts
\* The JSON of a should_alert / record_alert request.
AlertKey(d, u, a, h) ==
    [domain |-> d, file_url |-> u, alert_type |-> a, content_hash |-> h]

\* The keys the gate is asked about: one change, the same change with other
\* content, and the same change on another site.
GateKeys ==
    {AlertKey("example.com", "a.js", "modified_file", "h2"),
     AlertKey("example.com", "a.js", "modified_file", "h1"),
     AlertKey("other.org", "a.js", "modified_file", "h2")}

Never == 0 - 1                 \* no record_alert request yet
NoDiff == [total_old |-> -1]

KeyOf(r) == AlertKey(r.domain, r.file_url, r.alert_type, r.content_hash)

\* cutoff = datetime.now() - timedelta(days=7)
Cutoff(t) == t - WindowDays

\* The query without its content_hash condition.
CountRecent_anyHash(tbl, k, cutoff) ==
    Cardinality({r \in tbl : /\ r.domain = k.domain
                             /\ r.file_url = k.file_url
                             /\ r.alert_type = k.alert_type
                             /\ r.alerted_at > cutoff})

\* The query with alerted_at >= ? for its last condition.
CountRecent_inclusive(tbl, k, cutoff) ==
    Cardinality({r \in tbl : KeyOf(r) = k /\ r.alerted_at >= cutoff})

\* SELECT COUNT(*) FROM alerts WHERE domain=? AND file_url=? AND alert_type=?
\* AND content_hash=? AND alerted_at > ?
CountRecent(tbl, k, cutoff) ==
    Cardinality({r \in tbl : KeyOf(r) = k /\ r.alerted_at > cutoff})

\* The body of should_alert.
should_alert(tbl, k, t) == CountRecent(tbl, k, Cutoff(t)) = 0

\* UNIQUE(domain, file_url, alert_type, content_hash) of table alerts.
AlertsUnique(tbl, k) == \A r \in tbl : KeyOf(r) # k

\* INSERT INTO alerts (domain, file_url, alert_type, content_hash, alerted_at)
InsertAlert(tbl, k, t) ==
    tbl \cup {[id |-> NextId(tbl), domain |-> k.domain, file_url |-> k.file_url,
               alert_type |-> k.alert_type, content_hash |-> k.content_hash,
               alerted_at |-> t]}

\* ----------------------------------------------------------- compare_files
\* A python dict: the keys in insertion order and the value of each key.
EmptyDict == [keys |-> <<>>, val |-> <<>>]

\* d[k] = v: a key that is already there keeps its position.
DictPut(d, k, v) ==
    [keys |-> IF k \in DOMAIN d.val THEN d.keys ELSE Append(d.keys, k),
     val |-> (k :> v) @@ d.val]

\* {f['url']: f for f in files}
RECURSIVE by_url(_)
by_url(files) ==
    IF files = <<>>
      THEN EmptyDict
      ELSE DictPut(by_url(SubSeq(files, 1, Len(files) - 1)),
                   files[Len(files)].url, files[Len(files)])

\* The comprehension without its condition.
ValuesNotIn_unfiltered(d, other) == [i \in 1..Len(d.keys) |-> d.val[d.keys[i]]]

\* [d[k] for k in d if k not in other]
ValuesNotIn(d, other) ==
    LET ks == SelectSeq(d.keys, LAMBDA u : u \notin DOMAIN other.val)
    IN [i \in 1..Len(ks) |-> d.val[ks[i]]]

\* 'changed' with old_hash and new_hash taken from the wrong side.
ChangedEntries_swapped(old, new) ==
    LET differs(u) == u \in DOMAIN old.val /\ old.val[u].hash # new.val[u].hash
        ks == SelectSeq(new.keys, differs)
    IN [i \in 1..Len(ks) |->
          [url |-> ks[i], old_hash |-> new.val[ks[i]].hash,
           new_hash |-> old.val[ks[i]].hash,
           filename |-> new.val[ks[i]].filename]]

\* Lines 48-59: the entries of 'changed'.
ChangedEntries(old, new) ==
    LET differs(u) == u \in DOMAIN old.val /\ old.val[u].hash # new.val[u].hash
        ks == SelectSeq(new.keys, differs)
    IN [i \in 1..Len(ks) |->
          [url |-> ks[i], old_hash |-> old.val[ks[i]].hash,
           new_hash |-> new.val[ks[i]].hash,
           filename |-> new.val[ks[i]].filename]]

\* ChangeDetector.compare_files
compare_files(old, new) ==
    LET old_by_url == by_url(old)
        new_by_url == by_url(new)
    IN [added |-> ValuesNotIn(new_by_url, old_by_url),
        removed |-> ValuesNotIn(old_by_url, new_by_url),
        changed |-> ChangedEntries(old_by_url, new_by_url),
        total_old |-> Len(old),
        total_new |-> Len(new)]

\* ------------------------------------------------------------- connections
\* A database that lets two connections write at the same time.
WriteLockFree_always(t) == TRUE

\* A statement that writes needs the database's write lock, which one
\* connection holds from its first write until it commits or is closed.
WriteLockFree(t) == \A o \in Threads \ {t} : ~view[o].open

\* What connection t reads: its own transaction if it has one.
Visible(t) == IF view[t].open THEN view[t].tbl ELSE js_files

\* c.execute(<a write>) on connection t: the result stays in t's transaction.
Execute(t, tbl) == [open |-> TRUE, tbl |-> tbl]

\* A connection that commits what it has when it is closed.
Rollback_keepsWrites(t) == view[t].tbl

\* The handler is left by an exception: its connection is never committed
\* and sqlite rolls its transaction back when the connection object is
\* collected; the database keeps what was committed.
Rollback(t) == js_files

\* No crawl is running.
NoWeb == [links |-> <<>>, scripts |-> <<>>]

CrawlIdle ==
    /\ web = NoWeb
    /\ max_pages = 0
    /\ visited = {}
    /\ to_visit = <<>>
    /\ all_js_files = EmptyDict
    /\ failed = {}
    /\ cpc = "off"
    /\ order = <<>>
    /\ fetch_failed = {}
    /\ hashed = {}

\* No page is being parsed.
NoPage == [url |-> <<>>]

ExtractIdle ==
    /\ doc = NoPage
    /\ html_js = {}
    /\ text_js = {}

\* No snapshot directory is in use.
SnapIdle ==
    /\ snapshot_dir = <<>>
    /\ latest = [timestamp |-> "none"]
    /\ clock = 0

TypeOK ==
    /\ now \in 0..(MaxTime + MaxGateTime + 2)
    /\ pc \in [Threads -> {"idle", "reg_loop", "reg_done", "reg_failed",
                           "chk_done", "gate_checked", "gate_notified",
                           "rec_done", "posted"}]
    /\ rounds \in 0..(MaxRounds + 1)

\* The row that register_files("other.org", [a.js: h1]) leaves on day 0.
OtherSite ==
    InsertRow({}, "other.org", FileDict("a.js", "h1"), 0)

\* A fresh database, or one that already tracks another site.
Init ==
    /\ now = 0
    /\ js_files \in {{}, OtherSite}
    /\ pc = [t \in Threads |-> "idle"]
    /\ req = [t \in Threads |-> NoReq]
    /\ view = [t \in Threads |-> NoTxn]
    /\ before = [t \in Threads |-> {}]
    /\ resp = [t \in Threads |-> NoResp]
    /\ prevReg = NoReq
    /\ alerts = {}
    /\ notified = {}
    /\ recorded = [k \in GateKeys |-> Never]
    /\ rounds = 0
    /\ old_files = <<>>
    /\ new_files = <<>>
    /\ diff = NoDiff
    /\ CrawlIdle
    /\ ExtractIdle
    /\ SnapIdle

\* ------------------------------------------------------------------- clock
Tick(limit) ==
    /\ now < limit
    /\ now' = now + 1
    /\ UNCHANGED <<pc, req, resp, storeVars, gateVars, diffVars, crawlVars, extractVars,
                   snapVars>>

\* ---------------------------------------------------------- register_files
\* Lines 92-101: read the request, connect, take now, mark the domain's
\* rows inactive.
RegisterBegin(t, d, files) ==
    /\ pc[t] = "idle"
    /\ WriteLockFree(t)
    /\ req' = [req EXCEPT ![t] = [op |-> "register", domain |-> d,
                                  files |-> files, i |-> 1, now |-> now]]
    /\ before' = [before EXCEPT ![t] = js_files]
    /\ view' = [view EXCEPT ![t] = Execute(t, MarkInactive(js_files, d))]
    /\ pc' = [pc EXCEPT ![t] = "reg_loop"]
    /\ UNCHANGED <<now, js_files, resp, prevReg, gateVars, diffVars, crawlVars, extractVars,
                   snapVars>>

\* Line 101 raises sqlite3.OperationalError (the database is locked by a
\* connection that was never closed, or cannot be written): answer 500.
RegisterUnavailable(t, d, files) ==
    /\ pc[t] = "idle"
    /\ req' = [req EXCEPT ![t] = [op |-> "register", domain |-> d,
                                  files |-> files, i |-> 0, now |-> now]]
    /\ before' = [before EXCEPT ![t] = js_files]
    /\ js_files' = Rollback(t)
    /\ resp' = [resp EXCEPT ![t] = [status |-> 500]]
    /\ pc' = [pc EXCEPT ![t] = "reg_failed"]
    /\ UNCHANGED <<now, view, prevReg, gateVars, diffVars, crawlVars, extractVars,
                   snapVars>>

\* Lines 103-124: one iteration of the loop over a file with all its keys.
RegisterFile(t) ==
    /\ pc[t] = "reg_loop"
    /\ req[t].i <= Len(req[t].files)
    /\ req[t].files[req[t].i].hash # NoKey
    /\ view' = [view EXCEPT ![t] =
                  Execute(t, Upsert(Visible(t), req[t].domain,
                                    req[t].files[req[t].i], req[t].now))]
    /\ req' = [req EXCEPT ![t].i = @ + 1]
    /\ UNCHANGED <<now, js_files, pc, before, resp, prevReg, gateVars, diffVars, crawlVars, extractVars,
                   snapVars>>

\* Line 106: file['hash'] raises KeyError; the handler is left without
\* commit and the request is answered 500.
RegisterKeyError(t) ==
    /\ pc[t] = "reg_loop"
    /\ req[t].i <= Len(req[t].files)
    /\ req[t].files[req[t].i].hash = NoKey
    /\ js_files' = Rollback(t)
    /\ view' = [view EXCEPT ![t] = NoTxn]
    /\ resp' = [resp EXCEPT ![t] = [status |-> 500]]
    /\ pc' = [pc EXCEPT ![t] = "reg_failed"]
    /\ UNCHANGED <<now, req, before, prevReg, gateVars, diffVars, crawlVars, extractVars,
                   snapVars>>

\* A statement of the loop, or the commit, raises sqlite3.OperationalError.
RegisterStoreError(t) ==
    /\ pc[t] = "reg_loop"
    /\ js_files' = Rollback(t)
    /\ view' = [view EXCEPT ![t] = NoTxn]
    /\ resp' = [resp EXCEPT ![t] = [status |-> 500]]
    /\ pc' = [pc EXCEPT ![t] = "reg_failed"]
    /\ UNCHANGED <<now, req, before, prevReg, gateVars, diffVars, crawlVars, extractVars,
                   snapVars>>

\* conn.commit(): the transaction becomes the database.
Commit(t) == view[t].tbl

\* Lines 126-129.
RegisterCommit(t) ==
    /\ pc[t] = "reg_loop"
    /\ req[t].i > Len(req[t].files)
    /\ js_files' = Commit(t)
    /\ view' = [view EXCEPT ![t] = NoTxn]
    /\ resp' = [resp EXCEPT ![t] = [status |-> 200,
                                    registered |-> Len(req[t].files)]]
    /\ pc' = [pc EXCEPT ![t] = "reg_done"]
    /\ UNCHANGED <<now, req, before, prevReg, gateVars, diffVars, crawlVars, extractVars,
                   snapVars>>

\* The response of register_files leaves the server.
RegisterReturn(t) ==
    /\ pc[t] \in {"reg_done", "reg_failed"}
    /\ prevReg' = [op |-> "register", domain |-> req[t].domain,
                   files |-> req[t].files, ok |-> pc[t] = "reg_done"]
    /\ pc' = [pc EXCEPT ![t] = "idle"]
    /\ req' = [req EXCEPT ![t] = NoReq]
    /\ resp' = [resp EXCEPT ![t] = NoResp]
    /\ before' = [before EXCEPT ![t] = {}]
    /\ UNCHANGED <<now, js_files, view, gateVars, diffVars, crawlVars, extractVars,
                   snapVars>>

\* --------------------------------------------------------- check_new_files
\* Lines 52-87, for a list whose dicts all have their keys.
CheckNewFiles(t, d, files) ==
    /\ pc[t] = "idle"
    /\ WellFormed(files)
    /\ req' = [req EXCEPT ![t] = [op |-> "check", domain |-> d, files |-> files]]
    /\ resp' = [resp EXCEPT ![t] =
                  [status |-> 200, body |-> check_new_files(Visible(t), d, files)]]
    /\ pc' = [pc EXCEPT ![t] = "chk_done"]
    /\ UNCHANGED <<now, js_files, view, before, prevReg, gateVars, diffVars, crawlVars, extractVars,
                   snapVars>>

CheckReturn(t) ==
    /\ pc[t] = "chk_done"
    /\ pc' = [pc EXCEPT ![t] = "idle"]
    /\ req' = [req EXCEPT ![t] = NoReq]
    /\ resp' = [resp EXCEPT ![t] = NoResp]
    /\ UNCHANGED <<now, js_files, view, before, prevReg, gateVars, diffVars, crawlVars, extractVars,
                   snapVars>>

\* ------------------------------------------------------------------- gate
\* should_alert, lines 132-153: the first step of a gate round.
ShouldAlert(t, k) ==
    /\ pc[t] = "idle"
    /\ rounds < MaxRounds
    /\ rounds' = rounds + 1
    /\ req' = [req EXCEPT ![t] = [op |-> "gate", key |-> k, now |-> now,
                                  round |-> rounds + 1]]
    /\ resp' = [resp EXCEPT ![t] =
                  [status |-> 200, should_alert |-> should_alert(alerts, k, now)]]
    /\ pc' = [pc EXCEPT ![t] = "gate_checked"]
    /\ UNCHANGED <<now, alerts, notified, recorded, storeVars, diffVars, crawlVars, extractVars,
                   snapVars>>

\* should_alert answered false: the change is suppressed, the round ends.
Suppress(t) ==
    /\ pc[t] = "gate_checked"
    /\ ~resp[t].should_alert
    /\ pc' = [pc EXCEPT ![t] = "idle"]
    /\ req' = [req EXCEPT ![t] = NoReq]
    /\ resp' = [resp EXCEPT ![t] = NoResp]
    /\ UNCHANGED <<now, storeVars, gateVars, diffVars, crawlVars, extractVars,
                   snapVars>>

\* should_alert answered true and send_slack_alert delivered the message.
Notify(t) ==
    /\ pc[t] = "gate_checked"
    /\ resp[t].should_alert
    /\ notified' = notified \cup
                     {[key |-> req[t].key, at |-> now, round |-> req[t].round]}
    /\ pc' = [pc EXCEPT ![t] = "gate_notified"]
    /\ UNCHANGED <<now, req, resp, alerts, recorded, rounds, storeVars, diffVars, crawlVars, extractVars,
                   snapVars>>

\* send_slack_alert returned False: nothing was sent, nothing is recorded.
NotifyFailed(t) ==
    /\ pc[t] = "gate_checked"
    /\ resp[t].should_alert
    /\ pc' = [pc EXCEPT ![t] = "idle"]
    /\ req' = [req EXCEPT ![t] = NoReq]
    /\ resp' = [resp EXCEPT ![t] = NoResp]
    /\ UNCHANGED <<now, storeVars, gateVars, diffVars, crawlVars, extractVars,
                   snapVars>>

\* record_alert, lines 156-175, when the INSERT is accepted.
RecordAlert(t) ==
    /\ pc[t] = "gate_notified"
    /\ WriteLockFree(t)
    /\ AlertsUnique(alerts, req[t].key)
    /\ alerts' = InsertAlert(alerts, req[t].key, now)
    /\ recorded' = [recorded EXCEPT ![req[t].key] = now]
    /\ resp' = [resp EXCEPT ![t] = [status |-> 200]]
    /\ pc' = [pc EXCEPT ![t] = "rec_done"]
    /\ UNCHANGED <<now, req, notified, rounds, storeVars, diffVars, crawlVars, extractVars,
                   snapVars>>

\* record_alert when the INSERT violates the UNIQUE constraint of alerts:
\* execute raises sqlite3.IntegrityError, nothing is committed, answer 500.
RecordAlertIntegrityError(t) ==
    /\ pc[t] = "gate_notified"
    /\ WriteLockFree(t)
    /\ ~AlertsUnique(alerts, req[t].key)
    /\ recorded' = [recorded EXCEPT ![req[t].key] = now]
    /\ resp' = [resp EXCEPT ![t] = [status |-> 500]]
    /\ pc' = [pc EXCEPT ![t] = "rec_done"]
    /\ UNCHANGED <<now, req, alerts, notified, rounds, storeVars, diffVars, crawlVars, extractVars,
                   snapVars>>

\* The response of record_alert leaves the server; the round ends.
RecordReturn(t) ==
    /\ pc[t] = "rec_done"
    /\ pc' = [pc EXCEPT ![t] = "idle"]
    /\ req' = [req EXCEPT ![t] = NoReq]
    /\ resp' = [resp EXCEPT ![t] = NoResp]
    /\ UNCHANGED <<now, storeVars, gateVars, diffVars, crawlVars, extractVars,
                   snapVars>>

\* ----------------------------------- the gate protocol, one round at a time
GateNext ==
    \/ Tick(MaxGateTime)
    \/ \E k \in GateKeys : ShouldAlert(1, k)
    \/ Suppress(1)
    \/ Notify(1)
    \/ NotifyFailed(1)
    \/ RecordAlert(1)
    \/ RecordAlertIntegrityError(1)
    \/ RecordReturn(1)

SpecGate == Init /\ [][GateNext]_vars

\* ------------------------------ the gate protocol, two runs at the same time
\* The server handles each request in a thread of its own (app.run), and
\* should_alert and record_alert are separate requests of a run.
GateConcNext ==
    \/ Tick(MaxTime)
    \/ \E t \in Threads, k \in GateKeys : ShouldAlert(t, k)
    \/ \E t \in Threads : Suppress(t)
    \/ \E t \in Threads : Notify(t)
    \/ \E t \in Threads : NotifyFailed(t)
    \/ \E t \in Threads : RecordAlert(t)
    \/ \E t \in Threads : RecordAlertIntegrityError(t)
    \/ \E t \in Threads : RecordReturn(t)

SpecGateConc == Init /\ [][GateConcNext]_vars

\* ------------------------------------------ gate requests as they are posted
GateFields == {"domain", "file_url", "alert_type", "content_hash"}

\* What a client may post to should_alert and record_alert: a key, or a key
\* without one of its fields.
GateData ==
    GateKeys \cup {[k EXCEPT ![f] = NoKey] : k \in GateKeys, f \in GateFields}

Malformed(data) == \E f \in GateFields : data[f] = NoKey

\* data.get('alert_type', 'new_file')
AlertTypeOf(data) ==
    IF data.alert_type = NoKey THEN "new_file" ELSE data.alert_type

\* should_alert, lines 132-153; data['domain'], data['file_url'] and
\* data['content_hash'] raise KeyError for a key that is not there, and the
\* request is answered 500.
PostShouldAlert(t, data) ==
    /\ pc[t] = "idle"
    /\ req' = [req EXCEPT ![t] = [op |-> "should_alert", data |-> data,
                                  now |-> now]]
    /\ resp' = [resp EXCEPT ![t] =
          IF NoKey \in {data.domain, data.file_url, data.content_hash}
            THEN [status |-> 500]
            ELSE [status |-> 200,
                  should_alert |->
                      should_alert(alerts,
                                   AlertKey(data.domain, data.file_url,
                                            AlertTypeOf(data),
                                            data.content_hash),
                                   now)]]
    /\ pc' = [pc EXCEPT ![t] = "posted"]
    /\ UNCHANGED <<now, storeVars, gateVars, diffVars, crawlVars, extractVars,
                   snapVars>>

\* record_alert, lines 156-175; all four keys are read with data[...], and
\* the INSERT raises IntegrityError for a key that has a row.
PostRecordAlert(t, data) ==
    /\ pc[t] = "idle"
    /\ WriteLockFree(t)
    /\ req' = [req EXCEPT ![t] = [op |-> "record_alert", data |-> data,
                                  now |-> now]]
    /\ IF Malformed(data)
         THEN /\ resp' = [resp EXCEPT ![t] = [status |-> 500]]
              /\ UNCHANGED <<alerts, recorded>>
         ELSE /\ recorded' = [recorded EXCEPT ![data] = now]
              /\ IF AlertsUnique(alerts, data)
                   THEN /\ alerts' = InsertAlert(alerts, data, now)
                        /\ resp' = [resp EXCEPT ![t] = [status |-> 200]]
                   ELSE /\ resp' = [resp EXCEPT ![t] = [status |-> 500]]
                        /\ UNCHANGED alerts
    /\ pc' = [pc EXCEPT ![t] = "posted"]
    /\ UNCHANGED <<now, notified, rounds, storeVars, diffVars, crawlVars, extractVars,
                   snapVars>>

\* The response leaves the server.
PostReturn(t) ==
    /\ pc[t] = "posted"
    /\ pc' = [pc EXCEPT ![t] = "idle"]
    /\ req' = [req EXCEPT ![t] = NoReq]
    /\ resp' = [resp EXCEPT ![t] = NoResp]
    /\ UNCHANGED <<now, storeVars, gateVars, diffVars, crawlVars, extractVars,
                   snapVars>>

GateInputNext ==
    \/ Tick(MaxTime)
    \/ \E data \in GateData : PostShouldAlert(1, data)
    \/ \E data \in GateData : PostRecordAlert(1, data)
    \/ PostReturn(1)

SpecGateInput == Init /\ [][GateInputNext]_vars

\* -------------------------------------------------------------------- diff
\* The file lists of a snapshot: up to two files with distinct URLs, in
\* either order.
DiffInventories ==
    {<<>>}
    \cup {<<FileDict(u, h)>> : u \in DiffUrls, h \in DiffHashes}
    \cup {<<FileDict(p[1], h1), FileDict(p[2], h2)>> :
            p \in {q \in DiffUrls \X DiffUrls : q[1] # q[2]},
            h1 \in DiffHashes, h2 \in DiffHashes}

InitDiff ==
    /\ now = 0
    /\ js_files = {}
    /\ pc = [t \in Threads |-> "idle"]
    /\ req = [t \in Threads |-> NoReq]
    /\ view = [t \in Threads |-> NoTxn]
    /\ before = [t \in Threads |-> {}]
    /\ resp = [t \in Threads |-> NoResp]
    /\ prevReg = NoReq
    /\ alerts = {}
    /\ notified = {}
    /\ recorded = [k \in GateKeys |-> Never]
    /\ rounds = 0
    /\ old_files \in DiffInventories
    /\ new_files \in DiffInventories
    /\ diff = NoDiff
    /\ CrawlIdle
    /\ ExtractIdle
    /\ SnapIdle

CompareFiles ==
    /\ diff = NoDiff
    /\ diff' = compare_files(old_files, new_files)
    /\ UNCHANGED <<now, pc, req, resp, storeVars, gateVars, old_files, new_files,
                   crawlVars, extractVars,
                   snapVars>>

DiffNext == CompareFiles

SpecDiff == InitDiff /\ [][DiffNext]_vars

\* ------------------------------------------ the store, one request at a time
StoreNext ==
    \/ Tick(MaxTime)
    \/ \E d \in Monitored, files \in FileLists : RegisterBegin(1, d, files)
    \/ \E d \in Monitored, files \in FileLists : RegisterUnavailable(1, d, files)
    \/ RegisterFile(1)
    \/ RegisterKeyError(1)
    \/ RegisterStoreError(1)
    \/ RegisterCommit(1)
    \/ RegisterReturn(1)
    \/ \E d \in Monitored, files \in FileLists : CheckNewFiles(1, d, files)
    \/ CheckReturn(1)

Spec == Init /\ [][StoreNext]_vars

\* --------------------------------------- the store, two requests at a time
\* The rows that register_files("example.com", [a.js: h1, b.js: h1]) leaves
\* on day 0 in a database that tracks another site.
Tracked ==
    register_files(OtherSite, "example.com",
                   <<FileDict("a.js", "h1"), FileDict("b.js", "h1")>>, 0)

InitConc ==
    /\ now = 0
    /\ js_files \in {OtherSite, Tracked}
    /\ pc = [t \in Threads |-> "idle"]
    /\ req = [t \in Threads |-> NoReq]
    /\ view = [t \in Threads |-> NoTxn]
    /\ before = [t \in Threads |-> {}]
    /\ resp = [t \in Threads |-> NoResp]
    /\ prevReg = NoReq
    /\ alerts = {}
    /\ notified = {}
    /\ recorded = [k \in GateKeys |-> Never]
    /\ rounds = 0
    /\ old_files = <<>>
    /\ new_files = <<>>
    /\ diff = NoDiff
    /\ CrawlIdle
    /\ ExtractIdle
    /\ SnapIdle

\* Two clients post register_files for the same site, each once: requests
\* are accepted until the first response has left the server.
ConcNext ==
    \/ \E t \in Threads, d \in Monitored, files \in FileLists :
          prevReg = NoReq /\ RegisterBegin(t, d, files)
    \/ \E t \in Threads, d \in Monitored, files \in FileLists :
          prevReg = NoReq /\ RegisterUnavailable(t, d, files)
    \/ \E t \in Threads : RegisterFile(t)
    \/ \E t \in Threads : RegisterKeyError(t)
    \/ \E t \in Threads : RegisterStoreError(t)
    \/ \E t \in Threads : RegisterCommit(t)
    \/ \E t \in Threads : RegisterReturn(t)

SpecConc == InitConc /\ [][ConcNext]_vars

\* ------------------------------------------------ requests for either site
\* The inventories posted for a site: nothing, a.js with either content, and
\* a.js with b.js.
FrameLists ==
    {<<>>, <<FileDict("a.js", "h1")>>, <<FileDict("a.js", "h2")>>,
     <<FileDict("a.js", "h1"), FileDict("b.js", "h1")>>}

\* The same change of a.js on either site.
FrameKeys == {k \in GateKeys : k.content_hash = "h2"}

\* Day 1 of a database that has tracked other.org since day 0.
InitFrame ==
    /\ now = 1
    /\ js_files = OtherSite
    /\ pc = [t \in Threads |-> "idle"]
    /\ req = [t \in Threads |-> NoReq]
    /\ view = [t \in Threads |-> NoTxn]
    /\ before = [t \in Threads |-> {}]
    /\ resp = [t \in Threads |-> NoResp]
    /\ prevReg = NoReq
    /\ alerts = {}
    /\ notified = {}
    /\ recorded = [k \in GateKeys |-> Never]
    /\ rounds = 0
    /\ old_files = <<>>
    /\ new_files = <<>>
    /\ diff = NoDiff
    /\ CrawlIdle
    /\ ExtractIdle
    /\ SnapIdle

\* One client after the other posts register_files, should_alert and
\* record_alert for example.com or other.org.
FrameNext ==
    \/ \E d \in Domains, files \in FrameLists : RegisterBegin(1, d, files)
    \/ RegisterFile(1)
    \/ RegisterCommit(1)
    \/ RegisterReturn(1)
    \/ \E data \in FrameKeys : PostShouldAlert(1, data)
    \/ \E data \in FrameKeys : PostRecordAlert(1, data)
    \/ PostReturn(1)

SpecFrame == InitFrame /\ [][FrameNext]_vars

\* ------------------------------------------------------------ crawl_for_js
\* A page URL: its host and the pieces of text that follow the host.
PageUrl(host, rest) == [host |-> host, rest |-> rest]

domain == "example.com"                 \* self.domain
base_url == PageUrl(domain, <<>>)       \* f"https://{domain}"
PageOne == PageUrl(domain, <<"/p1">>)
PageTwo == PageUrl(domain, <<"/p2">>)
\* Pages of another host; the first has the domain's name in its query.
Referrer == PageUrl("evil.net", <<"/?ref=", domain>>)
Elsewhere == PageUrl("evil.net", <<"/">>)

InDomain == {base_url, PageOne, PageTwo}
PageUrls == InDomain \cup {Referrer, Elsewhere}

\* self.domain in full_url: the name occurs somewhere in the URL's text.
Mentions(d, url) ==
    \/ url.host = d
    \/ \E i \in 1..Len(url.rest) : url.rest[i] = d

\* The <a href> of a page, after urljoin, in document order.
LinkLists(S, n) == UNION {[1..m -> S] : m \in 0..n}

\* The sites: the root has up to two links to any page, the two inner pages
\* up to one link into the site, the root and the first inner page scripts.
Webs ==
    {[links |-> [p \in PageUrls |->
                   CASE p = base_url -> l0
                     [] p = PageOne -> l1
                     [] p = PageTwo -> l2
                     [] OTHER -> <<>>],
      scripts |-> [p \in PageUrls |->
                     CASE p = base_url -> s0
                       [] p = PageOne -> s1
                       [] OTHER -> {}]] :
        l0 \in LinkLists(PageUrls, 2),
        l1 \in LinkLists(InDomain, 1),
        l2 \in LinkLists({PageOne}, 1),
        s0 \in SUBSET Urls,
        s1 \in SUBSET {"a.js"}}

\* get_file_hash: the digest of what was served, or "" when the download
\* failed or was not answered 200.
Downloads == Hashes \cup {""}

\* The dict stored for a script found on a page.
CrawlEntry(u, h, page) ==
    [url |-> u, filename |-> u, hash |-> h, source_page |-> page]

\* list(d.values())
DictValues(d) == [i \in 1..Len(d.keys) |-> d.val[d.keys[i]]]

\* The orders in which a set can be iterated.
Orderings(S) ==
    {q \in [1..Cardinality(S) -> S] :
        \A i, j \in 1..Cardinality(S) : q[i] = q[j] => i = j}

\* Line 135: the scripts of a page that are given to get_file_hash.
ToHash(d, page_js) == {u \in page_js : u \notin DOMAIN d.val}

\* The loop without the test of line 135: every script of the page is
\* downloaded and stored again.
RECURSIVE AddScripts_overwrites(_, _, _, _)
AddScripts_overwrites(d, q, served, page) ==
    IF q = <<>>
      THEN d
      ELSE LET u == Head(q)
               d2 == IF served[u] # ""
                       THEN DictPut(d, u, CrawlEntry(u, served[u], page))
                       ELSE d
           IN AddScripts_overwrites(d2, Tail(q), served, page)

\* Lines 134-147: the loop over page_js in iteration order q, where
\* get_file_hash answers served[u] for URL u.
RECURSIVE AddScripts(_, _, _, _)
AddScripts(d, q, served, page) ==
    IF q = <<>>
      THEN d
      ELSE LET u == Head(q)
               d2 == IF u \notin DOMAIN d.val /\ served[u] # ""
                       THEN DictPut(d, u, CrawlEntry(u, served[u], page))
                       ELSE d
           IN AddScripts(d2, Tail(q), served, page)

\* The links taken in reverse document order.
RECURSIVE FollowLinks_reversed(_, _)
FollowLinks_reversed(links, seen) ==
    IF links = <<>>
      THEN <<>>
      ELSE FollowLinks_reversed(Tail(links), seen)
           \o (IF Mentions(domain, Head(links)) /\ Head(links) \notin seen
                 THEN <<Head(links)>>
                 ELSE <<>>)

\* The loop over the links without its test against visited.
RECURSIVE FollowLinks_unfiltered(_, _)
FollowLinks_unfiltered(links, seen) ==
    IF links = <<>>
      THEN <<>>
      ELSE (IF Mentions(domain, Head(links)) THEN <<Head(links)>> ELSE <<>>)
           \o FollowLinks_unfiltered(Tail(links), seen)

\* Lines 151-157: the links of a page that are appended to to_visit.
RECURSIVE FollowLinks(_, _)
FollowLinks(links, seen) ==
    IF links = <<>>
      THEN <<>>
      ELSE (IF Mentions(domain, Head(links)) /\ Head(links) \notin seen
              THEN <<Head(links)>>
              ELSE <<>>) \o FollowLinks(Tail(links), seen)

\* The loop condition with <= for <.
WithinBudget_offByOne(n, budget) == n <= budget

\* len(visited) < max_pages
WithinBudget(n, budget) == n < budget

\* url = to_visit[0], leaving the list as it is.
Pop_peek(q) == q

\* to_visit.pop(0): what is left of the list.
Pop(q) == Tail(q)

\* Line 109: the condition of the while loop.
Looping ==
    /\ cpc = "loop"
    /\ to_visit # <<>>
    /\ WithinBudget(Cardinality(visited), max_pages)

\* The previous run found a.js and b.js on the root page; the store holds
\* them as active rows and the previous snapshot lists them.
PrevFiles ==
    <<CrawlEntry("a.js", "h1", base_url), CrawlEntry("b.js", "h1", base_url)>>

InitCrawl ==
    /\ now = 1
    /\ js_files = register_files(OtherSite, domain, PrevFiles, 0)
    /\ pc = [t \in Threads |-> "idle"]
    /\ req = [t \in Threads |-> NoReq]
    /\ view = [t \in Threads |-> NoTxn]
    /\ before = [t \in Threads |-> {}]
    /\ resp = [t \in Threads |-> NoResp]
    /\ prevReg = NoReq
    /\ alerts = {}
    /\ notified = {}
    /\ recorded = [k \in GateKeys |-> Never]
    /\ rounds = 0
    /\ old_files = PrevFiles
    /\ new_files = <<>>
    /\ diff = NoDiff
    /\ web \in Webs
    /\ max_pages \in 0..MaxPages
    /\ visited = {}
    /\ to_visit = <<base_url>>
    /\ all_js_files = EmptyDict
    /\ failed = {}
    /\ cpc = "loop"
    /\ order = <<>>
    /\ fetch_failed = {}
    /\ hashed = {}
    /\ ExtractIdle
    /\ SnapIdle

\* Lines 110-113: the URL taken from the list was fetched before.
CrawlSkip ==
    /\ Looping
    /\ Head(to_visit) \in visited
    /\ to_visit' = Pop(to_visit)
    /\ UNCHANGED <<now, pc, req, resp, storeVars, gateVars, diffVars, web,
                   max_pages, visited, all_js_files, failed, cpc, order,
                   fetch_failed, hashed, extractVars, snapVars>>

\* Lines 110-122: get_page_content returned "" (the request failed or the
\* page is empty); the page counts as visited and gives nothing.
CrawlFetchFailed ==
    /\ Looping
    /\ Head(to_visit) \notin visited
    /\ visited' = visited \cup {Head(to_visit)}
    /\ order' = Append(order, Head(to_visit))
    /\ fetch_failed' = fetch_failed \cup {Head(to_visit)}
    /\ hashed' = {}
    /\ to_visit' = Pop(to_visit)
    /\ UNCHANGED <<now, pc, req, resp, storeVars, gateVars, diffVars, web,
                   max_pages, all_js_files, failed, cpc, extractVars,
                   snapVars>>

\* Lines 110-160: a page is fetched, its scripts are downloaded and hashed,
\* its links are appended.
CrawlPage ==
    /\ Looping
    /\ Head(to_visit) \notin visited
    /\ LET url == Head(to_visit)
           page_js == web.scripts[url]
       IN /\ visited' = visited \cup {url}
          /\ order' = Append(order, url)
          /\ hashed' = ToHash(all_js_files, page_js)
          /\ \E q \in Orderings(page_js), served \in [page_js -> Downloads] :
               /\ all_js_files' = AddScripts(all_js_files, q, served, url)
               /\ failed' = failed \cup
                    {u \in page_js :
                        u \notin DOMAIN all_js_files.val /\ served[u] = ""}
          /\ to_visit' = Pop(to_visit) \o FollowLinks(web.links[url], visited')
    /\ UNCHANGED <<now, pc, req, resp, storeVars, gateVars, diffVars, web,
                   max_pages, cpc, fetch_failed, extractVars, snapVars>>

\* Line 165: the loop has ended, the files found are returned.
CrawlReturn ==
    /\ cpc = "loop"
    /\ ~Looping
    /\ cpc' = "done"
    /\ new_files' = DictValues(all_js_files)
    /\ UNCHANGED <<now, pc, req, resp, storeVars, gateVars, old_files, diff,
                   web, max_pages, visited, to_visit, all_js_files, failed,
                   order, fetch_failed, hashed, extractVars, snapVars>>

\* The run goes on with what the crawl returned: the diff against the
\* previous inventory and the reconciliation of the store.
DiffAndReconcile ==
    /\ cpc = "done"
    /\ diff' = compare_files(old_files, new_files)
    /\ js_files' = register_files(js_files, domain, new_files, now)
    /\ cpc' = "reconciled"
    /\ UNCHANGED <<now, pc, req, resp, view, before, prevReg, gateVars,
                   old_files, new_files, web, max_pages, visited, to_visit,
                   all_js_files, failed, order, fetch_failed, hashed,
                   extractVars, snapVars>>

CrawlLoop ==
    \/ CrawlSkip
    \/ CrawlFetchFailed
    \/ CrawlPage
    \/ CrawlReturn

CrawlNext ==
    \/ CrawlSkip
    \/ CrawlFetchFailed
    \/ CrawlPage
    \/ CrawlReturn
    \/ DiffAndReconcile

SpecCrawl == InitCrawl /\ [][CrawlNext]_vars

\* Every request of the loop has a timeout and the sleep is one second, so
\* an iteration that can be taken is taken.
SpecCrawlLive == SpecCrawl /\ WF_vars(CrawlLoop)

\* ------------------------------------------------- extraction of script URLs
\* The text of a URL or of a reference to one, cut into pieces: scheme,
\* "//", host, "/" and names.
Secure == <<"https:">>
SiteRoot == <<"https:", "//", "example.com", "/">>
SiteDoc == <<"https:", "//", "example.com", "/", "docs", "/", "index.html">>
PlainRoot == <<"http:", "//", "example.com", "/">>
DocUrls == {SiteRoot, SiteDoc, PlainRoot}

\* What a page may give as src, href or regex match.
Refs ==
    {<<"//", "cdn.example.com", "/", "x.js">>,
     <<"/", "x.js">>,
     <<"/", "x.js?v=1">>,
     <<"x.js">>,
     <<"js", "/", "x.js">>,
     <<"https:", "//", "cdn.example.com", "/", "x.js">>}

AtMostOne(S) == {{}} \cup {{x} : x \in S}

Docs ==
    {[url |-> u, src |-> s, href |-> h, matches |-> m, parsed |-> FALSE] :
        u \in DocUrls, s \in AtMostOne(Refs), h \in AtMostOne(Refs),
        m \in AtMostOne(Refs)}

\* s.startswith('//'), s.startswith('/'), s.startswith(('http://', 'https://'))
StartsWithSlashes(s) == s # <<>> /\ s[1] = "//"
StartsWithSlash(s) == s # <<>> /\ s[1] \in {"/", "//"}
StartsWithHttp(s) == Len(s) >= 2 /\ s[1] \in {"http:", "https:"} /\ s[2] = "//"

\* s.endswith('.js'), '.js?' in s, '.js' in s.lower()
EndsWithJs(s) == s # <<>> /\ s[Len(s)] = "x.js"
HasJsQuery(s) == \E i \in 1..Len(s) : s[i] = "x.js?v=1"
HasJs(s) == \E i \in 1..Len(s) : s[i] \in {"x.js", "x.js?v=1"}

\* The position of the last "/" of a URL's path, 0 if it has no path.
LastSlash(b) ==
    IF \E i \in 4..Len(b) : b[i] = "/"
      THEN CHOOSE i \in 4..Len(b) :
               b[i] = "/" /\ \A j \in (i + 1)..Len(b) : b[j] # "/"
      ELSE 0

\* urllib.parse.urljoin(base, ref) for an absolute base.
urljoin(b, ref) ==
    IF StartsWithHttp(ref) THEN ref
    ELSE IF StartsWithSlashes(ref) THEN <<b[1]>> \o ref
    ELSE IF StartsWithSlash(ref) THEN SubSeq(b, 1, 3) \o ref
    ELSE IF LastSlash(b) = 0 THEN SubSeq(b, 1, 3) \o <<"/">> \o ref
    ELSE SubSeq(b, 1, LastSlash(b)) \o ref

\* Lines 43-48: the src of a script element.
ResolveSrc(src, b) ==
    IF StartsWithSlashes(src) THEN Secure \o src
    ELSE IF StartsWithSlash(src) THEN urljoin(b, src)
    ELSE IF ~StartsWithHttp(src) THEN urljoin(b, src)
    ELSE src

\* Lines 58-61: the href of a link element.
ResolveHref(href, b) ==
    IF StartsWithSlashes(href) THEN Secure \o href
    ELSE IF StartsWithSlash(href) THEN urljoin(b, href)
    ELSE href

\* Lines 79-84: a match of one of the patterns.
ResolveMatch(match, b) ==
    IF StartsWithSlashes(match) THEN Secure \o match
    ELSE IF StartsWithSlash(match) THEN urljoin(b, match)
    ELSE IF ~StartsWithHttp(match) THEN urljoin(b, match)
    ELSE match

\* extract_js_from_html, lines 33-64.
extract_js_from_html(d) ==
    {u \in {ResolveSrc(s, d.url) : s \in d.src} : EndsWithJs(u) \/ HasJsQuery(u)}
    \cup {ResolveHref(h, d.url) : h \in {x \in d.href : EndsWithJs(x)}}

\* extract_from_response_text, lines 66-89.
extract_from_response_text(d) ==
    {u \in {ResolveMatch(m, d.url) : m \in d.matches} : HasJs(u)}

InitExtract ==
    /\ now = 0
    /\ js_files = {}
    /\ pc = [t \in Threads |-> "idle"]
    /\ req = [t \in Threads |-> NoReq]
    /\ view = [t \in Threads |-> NoTxn]
    /\ before = [t \in Threads |-> {}]
    /\ resp = [t \in Threads |-> NoResp]
    /\ prevReg = NoReq
    /\ alerts = {}
    /\ notified = {}
    /\ recorded = [k \in GateKeys |-> Never]
    /\ rounds = 0
    /\ old_files = <<>>
    /\ new_files = <<>>
    /\ diff = NoDiff
    /\ CrawlIdle
    /\ SnapIdle
    /\ doc \in Docs
    /\ html_js = {}
    /\ text_js = {}

\* Lines 125-131 of crawl_for_js: both extractions of a fetched page.
ExtractPage ==
    /\ ~doc.parsed
    /\ html_js' = extract_js_from_html(doc)
    /\ text_js' = extract_from_response_text(doc)
    /\ doc' = [doc EXCEPT !.parsed = TRUE]
    /\ UNCHANGED <<now, pc, req, resp, storeVars, gateVars, diffVars, crawlVars,
                   snapVars>>

ExtractNext == ExtractPage

SpecExtract == InitExtract /\ [][ExtractNext]_vars

\* ---------------------------------------------------------------- snapshots
\* time.strftime("%Y%m%d_%H%M%S"): the clock as zero-padded digits.
Stamp(t) == <<t \div 10, t % 10>>

\* The file name "snapshot_<timestamp>.json" is given by its timestamp.
\* s1 > s2 as python compares strings.
StrGreater(s1, s2) ==
    \E i \in 1..Len(s1) :
        /\ \A j \in 1..(i - 1) : j <= Len(s2) /\ s1[j] = s2[j]
        /\ i > Len(s2) \/ s1[i] > s2[i]

\* snapshots.sort(reverse=True)
SortReverse(names) ==
    CHOOSE q \in Orderings(names) :
        \A i, j \in 1..Len(q) : i < j => StrGreater(q[i], q[j])

\* The index always 0: the newest snapshot.
Chosen_newest(n) == 1

\* Lines 33-36: snapshots[1] if there are several, else snapshots[0]
\* (counted from 1 here).
Chosen(n) == IF n > 1 THEN 2 ELSE 1

None == [timestamp |-> "none"]

\* The body of get_latest_snapshot for a directory given as a function
\* from file names to their JSON.
get_latest_snapshot(dir) ==
    IF DOMAIN dir = {}
      THEN None
      ELSE LET snapshots == SortReverse(DOMAIN dir)
           IN dir[snapshots[Chosen(Len(snapshots))]]

\* What crawl_for_js may have returned.
SnapFiles == {<<>>, <<CrawlEntry("a.js", "h1", base_url)>>, PrevFiles}

InitSnap ==
    /\ now = 0
    /\ js_files = {}
    /\ pc = [t \in Threads |-> "idle"]
    /\ req = [t \in Threads |-> NoReq]
    /\ view = [t \in Threads |-> NoTxn]
    /\ before = [t \in Threads |-> {}]
    /\ resp = [t \in Threads |-> NoResp]
    /\ prevReg = NoReq
    /\ alerts = {}
    /\ notified = {}
    /\ recorded = [k \in GateKeys |-> Never]
    /\ rounds = 0
    /\ old_files = <<>>
    /\ new_files = <<>>
    /\ diff = NoDiff
    /\ CrawlIdle
    /\ ExtractIdle
    /\ snapshot_dir = <<>>
    /\ latest = None
    /\ clock = 8

\* A second passes.
SnapTick ==
    /\ clock < MaxClock
    /\ clock' = clock + 1
    /\ UNCHANGED <<now, pc, req, resp, storeVars, gateVars, diffVars, crawlVars,
                   extractVars, snapshot_dir, latest>>

\* save_snapshot, lines 167-183: a file named by the second it is written
\* in; a file of that name is overwritten.
SaveSnapshot(files) ==
    /\ snapshot_dir' =
         (Stamp(clock) :> [domain |-> domain, timestamp |-> Stamp(clock),
                           total_files |-> Len(files), files |-> files])
         @@ snapshot_dir
    /\ UNCHANGED <<now, pc, req, resp, storeVars, gateVars, diffVars, crawlVars,
                   extractVars, latest, clock>>

\* get_latest_snapshot, lines 15-39; latest keeps what was returned and the
\* directory it was read from.
GetLatestSnapshot ==
    /\ latest' = [returned |-> get_latest_snapshot(snapshot_dir),
                  dir |-> snapshot_dir]
    /\ UNCHANGED <<now, pc, req, resp, storeVars, gateVars, diffVars, crawlVars,
                   extractVars, snapshot_dir, clock>>

SnapNext ==
    \/ SnapTick
    \/ \E files \in SnapFiles : SaveSnapshot(files)
    \/ GetLatestSnapshot

SpecSnap == InitSnap /\ [][SnapNext]_vars

\* ===================================================================
\* Properties of the store (specification Spec)
\* ===================================================================
\* The hash a list with distinct URLs gives for URL u.
ListedHash(files, u) ==
    files[CHOOSE i \in 1..Len(files) : files[i].url = u].hash

RowsOf(tbl, d, u) == {r \in tbl : r.domain = d /\ r.url = u}

\* register_files of thread t has committed and is about to answer.
Registered(t) == pc[t] = "reg_done"

C1_Post ==
    \A t \in Threads : Registered(t) =>
        LET d == req[t].domain
            I == req[t].files
        IN /\ {r.url : r \in ActiveRows(js_files, d)} = UrlsOf(I)
           /\ \A r \in ActiveRows(js_files, d) : r.hash = ListedHash(I, r.url)
           /\ \A r \in js_files :
                 r.domain = d /\ r.url \notin UrlsOf(I) => ~r.is_active

C1_Stays ==
    \A r \in js_files : ~r.is_active =>
        \A r2 \in RowsOf(js_files', r.domain, r.url) :
            r2.is_active =>
                \E t \in Threads :
                    /\ pc[t] = "reg_loop" /\ pc'[t] = "reg_done"
                    /\ req[t].domain = r.domain
                    /\ r.url \in UrlsOf(req[t].files)

\* C1: when register_files(D, I) has committed, the active rows of D are
\* exactly the URLs of I, each with the hash I gives, and every other row of
\* D is inactive; an inactive row becomes active again only in the commit of
\* a register_files for its domain whose list holds its URL.
C1_ReconcileExact == [][C1_Post' /\ C1_Stays]_vars

\* A reconcile that deactivated one tracked file and changed another's hash.
C1_Witness ==
    /\ Registered(1)
    /\ \E r \in ActiveRows(before[1], req[1].domain) :
          r.url \notin UrlsOf(req[1].files)
    /\ \E r \in ActiveRows(before[1], req[1].domain) :
          /\ r.url \in UrlsOf(req[1].files)
          /\ r.hash # ListedHash(req[1].files, r.url)
    /\ C1_Post

\* C7: no step changes the first_seen of a row: the (domain, url) row is
\* still there afterwards and carries the first_seen it had.
C7_FirstSeenImmutable ==
    [][\A r \in js_files :
          /\ RowsOf(js_files', r.domain, r.url) # {}
          /\ \A r2 \in RowsOf(js_files', r.domain, r.url) :
                r2.first_seen = r.first_seen]_vars

\* A row whose hash was changed by a later reconcile and that still has the
\* first_seen of an earlier day.
C7_Witness ==
    /\ Registered(1)
    /\ \E r \in js_files : \E b \in before[1] :
          /\ b.id = r.id
          /\ b.hash # r.hash
          /\ r.first_seen < r.last_seen
          /\ r.first_seen = b.first_seen

\* Row r of the table before the call was inactive and the call lists its
\* URL with the hash the row has.
Reobserved(t, r) ==
    /\ r.domain = req[t].domain
    /\ ~r.is_active
    /\ \E i \in 1..Len(req[t].files) :
          req[t].files[i].url = r.url /\ req[t].files[i].hash = r.hash

\* C8: when register_files has committed a list that holds, with the same
\* hash, the URL of a row that was inactive, the table has exactly one row
\* for that (domain, url): the old row (same id) with last_seen set to the
\* time of this call and is_active set.
C8_Reactivation ==
    \A t \in Threads : Registered(t) =>
        \A r \in before[t] : Reobserved(t, r) =>
            RowsOf(js_files, r.domain, r.url)
              = {[r EXCEPT !.last_seen = req[t].now, !.is_active = TRUE]}

\* An inactive row reobserved on a later day than it was last seen.
C8_Witness ==
    /\ Registered(1)
    /\ \E r \in before[1] : Reobserved(1, r) /\ r.last_seen < req[1].now
    /\ \E r \in js_files : r.is_active /\ r.first_seen < r.last_seen

\* Table a is table b up to the last_seen of its rows.
SameButLastSeen(b, a) ==
    /\ Cardinality(a) = Cardinality(b)
    /\ \A r \in b : \E r2 \in a : r2 = [r EXCEPT !.last_seen = r2.last_seen]

\* Thread t repeats the register_files request that completed last.
Repeats(t) ==
    /\ Registered(t)
    /\ prevReg.op = "register"
    /\ prevReg.ok
    /\ prevReg.domain = req[t].domain
    /\ prevReg.files = req[t].files

\* C9: when register_files(D, I) has committed right after a committed
\* register_files(D, I), the active rows of D are I, check_new_files(D, I)
\* reports no new and no modified file, and the second call changed nothing
\* but last_seen.
C9_Idempotent ==
    \A t \in Threads : Repeats(t) =>
        LET d == req[t].domain
            I == req[t].files
            out == check_new_files(js_files, d, I)
        IN /\ {r.url : r \in ActiveRows(js_files, d)} = UrlsOf(I)
           /\ \A r \in ActiveRows(js_files, d) : r.hash = ListedHash(I, r.url)
           /\ out.new_files = <<>>
           /\ out.modified_files = <<>>
           /\ SameButLastSeen(before[t], js_files)

\* The same two-file inventory registered twice, the second time a day later.
C9_Witness ==
    /\ Repeats(1)
    /\ Len(req[1].files) = 2
    /\ \E r \in before[1] : r.is_active /\ r.last_seen < req[1].now
    /\ js_files # before[1]

\* C10: when register_files has failed (an exception after the 'mark all
\* inactive' UPDATE), the database holds exactly the rows it held when the
\* call began.
C10_FailedCommitsNothing ==
    \A t \in Threads : pc[t] = "reg_failed" => js_files = before[t]

\* A call that failed on its second file, after it had marked active rows
\* inactive and written its first file.
C10_Witness ==
    /\ pc[1] = "reg_failed"
    /\ req[1].i = 2
    /\ ActiveRows(before[1], req[1].domain) # {}
    /\ js_files = before[1]

C11_Unique ==
    \A r1, r2 \in js_files :
        r1.domain = r2.domain /\ r1.url = r2.url => r1 = r2

Pairs(tbl) == {<<r.domain, r.url>> : r \in tbl}

C11_Grows == Pairs(js_files) \subseteq Pairs(js_files')

\* C11: the store never holds two rows for one (domain, url), and no step
\* removes a row: the set of (domain, url) pairs of js_files only grows.
C11_OneRowPerUrl == [](C11_Unique) /\ [][C11_Grows]_vars

\* register_files has committed a list that drops a URL it had registered
\* and lists another again: the dropped row is still there, and the listed
\* one is there once.
C11_Witness ==
    \E t \in Threads :
        /\ Registered(t)
        /\ \E r \in js_files :
              /\ r.domain = req[t].domain
              /\ r.url \notin UrlsOf(req[t].files)
        /\ \E r \in before[t] :
              /\ r.domain = req[t].domain
              /\ r.url \in UrlsOf(req[t].files)

\* ===================================================================
\* Properties of compare_files (specification SpecDiff)
\* ===================================================================
SeqUrls(s) == {s[i].url : i \in 1..Len(s)}
InBoth == UrlsOf(old_files) \cap UrlsOf(new_files)
Unchanged ==
    {u \in InBoth : ListedHash(old_files, u) = ListedHash(new_files, u)}

\* C5: the URLs of added, removed and changed and the unchanged URLs are
\* pairwise disjoint and together are the URLs of old and new; no list names
\* a URL twice.
C5_Partition ==
    diff # NoDiff =>
        LET A == SeqUrls(diff.added)
            R == SeqUrls(diff.removed)
            C == SeqUrls(diff.changed)
        IN /\ A \cap R = {} /\ A \cap C = {} /\ R \cap C = {}
           /\ Unchanged \cap (A \cup R \cup C) = {}
           /\ A \cup R \cup C \cup Unchanged
                = UrlsOf(old_files) \cup UrlsOf(new_files)
           /\ Len(diff.added) = Cardinality(A)
           /\ Len(diff.removed) = Cardinality(R)
           /\ Len(diff.changed) = Cardinality(C)

\* One file removed, one added and one changed in the same comparison.
C5_Witness ==
    /\ diff # NoDiff
    /\ Len(diff.added) = 1 /\ Len(diff.removed) = 1 /\ Len(diff.changed) = 1

\* C6: added is the files of new whose URL is not in old, removed the files
\* of old whose URL is not in new, changed the URLs in both whose hashes
\* differ, each with the hash of old as old_hash and of new as new_hash.
C6_Contents ==
    diff # NoDiff =>
        /\ {diff.added[i] : i \in 1..Len(diff.added)}
             = {new_files[i] : i \in {j \in 1..Len(new_files) :
                                  new_files[j].url \notin UrlsOf(old_files)}}
        /\ {diff.removed[i] : i \in 1..Len(diff.removed)}
             = {old_files[i] : i \in {j \in 1..Len(old_files) :
                                  old_files[j].url \notin UrlsOf(new_files)}}
        /\ SeqUrls(diff.changed) = InBoth \ Unchanged
        /\ \A i \in 1..Len(diff.changed) :
              /\ diff.changed[i].old_hash = ListedHash(old_files, diff.changed[i].url)
              /\ diff.changed[i].new_hash = ListedHash(new_files, diff.changed[i].url)

\* old {a.js: h1}, new {a.js: h2, b.js: h3}: added b.js, changed a.js h1->h2.
C6_Witness ==
    /\ old_files = <<FileDict("a.js", "h1")>>
    /\ new_files = <<FileDict("a.js", "h2"), FileDict("b.js", "h3")>>
    /\ diff # NoDiff
    /\ diff.added = <<FileDict("b.js", "h3")>>
    /\ diff.removed = <<>>
    /\ diff.changed = <<[url |-> "a.js", old_hash |-> "h1", new_hash |-> "h2",
                         filename |-> "a.js"]>>

\* ===================================================================
\* Properties of the alert gate (specification SpecGate)
\* ===================================================================
\* C2: any two notifications for one key are at least one window apart.
C2_OncePerWindow ==
    \A n1 \in notified : \A n2 \in notified :
        (n1.key = n2.key /\ n1.round < n2.round) =>
            n2.at - n1.at >= WindowDays

\* C3: should_alert answers false while less than one window has passed
\* since the last record_alert request for the key, and true once more than
\* one window has passed.
C3_WindowAfterRecord ==
    \A t \in Threads :
        (pc[t] = "gate_checked" /\ recorded[req[t].key] # Never) =>
            LET elapsed == req[t].now - recorded[req[t].key]
            IN /\ elapsed < WindowDays => ~resp[t].should_alert
               /\ elapsed > WindowDays => resp[t].should_alert

\* C4: every record_alert request adds exactly one row, with its key and
\* alerted_at = now, and leaves the rows that were there as they were.
C4_RecordAppends ==
    [][\A t \in Threads :
          (pc[t] = "gate_notified" /\ pc'[t] = "rec_done") =>
              \E r \in alerts' :
                  /\ r \notin alerts
                  /\ alerts' = alerts \cup {r}
                  /\ KeyOf(r) = req[t].key
                  /\ r.alerted_at = now]_vars

\* should_alert of thread t has answered for key req[t].key at time req[t].now.
Checked(t) == pc[t] = "gate_checked"

\* C12 as stated: should_alert answers false exactly when alerts holds a row
\* with the key whose alerted_at lies in the closed interval
\* [now - window, now].
C12_ClosedWindow ==
    \A t \in Threads : Checked(t) =>
        (~resp[t].should_alert <=>
            \E r \in alerts :
                /\ KeyOf(r) = req[t].key
                /\ r.alerted_at >= req[t].now - WindowDays
                /\ r.alerted_at <= req[t].now)

\* C12, amended: should_alert answers false exactly when alerts holds a row
\* with the key whose alerted_at lies in the half-open interval
\* (now - window, now]; a row exactly one window old does not suppress.
C12_HalfOpenWindow ==
    \A t \in Threads : Checked(t) =>
        (~resp[t].should_alert <=>
            \E r \in alerts :
                /\ KeyOf(r) = req[t].key
                /\ r.alerted_at > req[t].now - WindowDays
                /\ r.alerted_at <= req[t].now)

\* should_alert has answered for a key whose row is exactly one window old.
C12_Witness ==
    \E t \in Threads :
        /\ Checked(t)
        /\ \E r \in alerts :
              /\ KeyOf(r) = req[t].key
              /\ r.alerted_at = req[t].now - WindowDays

\* Rows of another fingerprint of the same domain, URL and kind as key k.
OtherFingerprints(tbl, k) ==
    {r \in tbl : /\ r.domain = k.domain
                 /\ r.file_url = k.file_url
                 /\ r.alert_type = k.alert_type
                 /\ r.content_hash # k.content_hash}

\* C13: the gate is keyed on the fingerprint: should_alert answers true for
\* a key that has no row, whatever rows other fingerprints of the same URL
\* and kind have, and answers false for a key whose row is less than one
\* window old, also when another fingerprint was recorded after it.
C13_KeyedOnFingerprint ==
    \A t \in Threads : Checked(t) =>
        LET k == req[t].key
            mine == {r \in alerts : KeyOf(r) = k}
        IN /\ mine = {} => resp[t].should_alert
           /\ (\E r \in mine : req[t].now - r.alerted_at < WindowDays)
                 => ~resp[t].should_alert

\* The file changed away and back: fingerprint k was recorded, another
\* fingerprint of the URL was alerted and recorded after it, and should_alert
\* has answered for k again within the window.
C13_Witness ==
    \E t \in Threads :
        /\ Checked(t)
        /\ ~resp[t].should_alert
        /\ \E r \in alerts :
              /\ KeyOf(r) = req[t].key
              /\ req[t].now - r.alerted_at < WindowDays
              /\ \E o \in OtherFingerprints(alerts, req[t].key) :
                    o.alerted_at > r.alerted_at

\* ===================================================================
\* Properties of concurrent gate rounds (specification SpecGateConc)
\* ===================================================================
\* Thread t is in a round whose should_alert answered true.
Passed(t) ==
    \/ Checked(t) /\ resp[t].should_alert
    \/ pc[t] \in {"gate_notified", "rec_done"}

\* C14: of two runs that are in a gate round for the same key at the same
\* time at most one has got should_alert = true, and two notifications for
\* one key are at least one window apart.
C14_GateSerialized ==
    /\ \A t1, t2 \in Threads :
          (t1 # t2 /\ Passed(t1) /\ Passed(t2)) => req[t1].key # req[t2].key
    /\ \A n1, n2 \in notified :
          (n1.key = n2.key /\ n1.round # n2.round) =>
              \/ n1.at - n2.at >= WindowDays
              \/ n2.at - n1.at >= WindowDays

\* ===================================================================
\* Properties of concurrent register_files (specification SpecConc)
\* ===================================================================
\* The active rows of domain d in tbl are the files of list I, no more.
ActiveIs(tbl, d, I) ==
    /\ {r.url : r \in ActiveRows(tbl, d)} = UrlsOf(I)
    /\ \A r \in ActiveRows(tbl, d) : r.hash = ListedHash(I, r.url)

Finished(t) == pc[t] \in {"reg_done", "reg_failed"}

\* The database changes only in the commit of one request, which leaves
\* the active rows of its domain as its list has them.
C15_Step ==
    js_files' # js_files =>
        \E t \in Threads :
            /\ pc[t] = "reg_loop" /\ pc'[t] = "reg_done"
            /\ ActiveIs(js_files', req[t].domain, req[t].files)

\* One request at a time is between its first UPDATE and its commit, and
\* when both have finished and one of them committed, the active rows are
\* those of a list that was committed.
C15_State ==
    /\ \A t1, t2 \in Threads :
          (pc[t1] = "reg_loop" /\ pc[t2] = "reg_loop") => t1 = t2
    /\ \A t1, t2 \in Threads :
          (/\ t1 # t2 /\ Finished(t1) /\ Finished(t2)
           /\ req[t1].domain = req[t2].domain
           /\ Registered(t1) \/ Registered(t2))
          => \E t \in {t1, t2} :
                 /\ Registered(t)
                 /\ ActiveIs(js_files, req[t].domain, req[t].files)

\* C15: two register_files requests for one domain do not interleave their
\* deactivate-all and upsert halves; the committed table, which is what any
\* other caller reads, changes only from the whole result of one request to
\* the whole result of the other; when both have finished the active rows
\* are exactly those of one of the two lists.
C15_NoInterleaving == [][C15_Step /\ C15_State']_vars

\* Both requests have committed, with lists naming different URLs, on a
\* domain that had active rows before.
C15_Witness ==
    /\ Registered(1) /\ Registered(2)
    /\ req[1].domain = req[2].domain
    /\ req[1].files # <<>> /\ req[2].files # <<>>
    /\ UrlsOf(req[1].files) # UrlsOf(req[2].files)
    /\ ActiveRows(before[1], req[1].domain) # {}
    /\ ActiveRows(before[2], req[2].domain) # {}

\* ===================================================================
\* Properties of crawl_for_js (specifications SpecCrawl, SpecCrawlLive)
\* ===================================================================
Returned == cpc \in {"done", "reconciled"}

\* C16: at every point of crawl_for_js at most max_pages pages have been
\* visited; every file of the inventory was found on a visited page, and the
\* returned list is that inventory; with max_pages = 1 the crawl visits
\* exactly one page, the root.
C16_PageBudget ==
    /\ Cardinality(visited) <= max_pages
    /\ \A u \in DOMAIN all_js_files.val :
          /\ all_js_files.val[u].source_page \in visited
          /\ u \in web.scripts[all_js_files.val[u].source_page]
    /\ Returned => new_files = DictValues(all_js_files)
    /\ (Returned /\ max_pages = 1) => visited = {base_url}

\* crawl_for_js(max_pages = 1) has returned from a root page that links to
\* two other pages of the site: one page was visited, the two are left in
\* to_visit.
C16_Witness ==
    /\ cpc = "done"
    /\ max_pages = 1
    /\ web.links[base_url] \in {<<PageOne, PageTwo>>, <<PageTwo, PageOne>>}
    /\ Cardinality(visited) = 1
    /\ Len(to_visit) = 2

\* C17: on every site of finitely many pages, cycles and self-links
\* included, and for every budget, the loop of crawl_for_js ends.
C17_Terminates == <>(cpc # "loop")

\* The crawl has returned with budget left from a site whose root links to
\* itself and to a page that links back to the root.
C17_Witness ==
    /\ cpc = "done"
    /\ web.links[base_url] = <<base_url, PageOne>>
    /\ web.links[PageOne] = <<base_url>>
    /\ visited = {base_url, PageOne}
    /\ Cardinality(visited) < max_pages

\* C18: every URL in to_visit, and every page fetched, has a host that is
\* the target domain, also when a link of another host has the domain's
\* name in its path or query.
C18_FrontierInScope ==
    /\ \A i \in 1..Len(to_visit) : to_visit[i].host = domain
    /\ \A p \in visited : p.host = domain

\* C19: a script whose download failed in this run is not in the returned
\* inventory, and if it was active before the run it is not listed in
\* 'removed' by the diff and its row is still active after the
\* reconciliation.
C19_FailedDownloadKept ==
    \A u \in failed \ DOMAIN all_js_files.val :
        /\ Returned => u \notin UrlsOf(new_files)
        /\ (cpc = "reconciled" /\ u \in UrlsOf(old_files)) =>
              /\ \A i \in 1..Len(diff.removed) : diff.removed[i].url # u
              /\ \E r \in ActiveRows(js_files, domain) : r.url = u

\* ===================================================================
\* Properties of posted gate requests (specification SpecGateInput)
\* ===================================================================
\* C20: a should_alert or record_alert request that lacks one of domain,
\* file_url, alert_type, content_hash is answered with an error: it gets no
\* decision, and no row of alerts has a field that was not given.
C20_MalformedRejected ==
    /\ \A t \in Threads :
          (pc[t] = "posted" /\ Malformed(req[t].data)) =>
              /\ resp[t].status # 200
              /\ "should_alert" \notin DOMAIN resp[t]
    /\ \A r \in alerts : ~Malformed(KeyOf(r))

\* ===================================================================
\* Properties of the extraction (specification SpecExtract)
\* ===================================================================
\* The four rules: '//host/...' gets 'https:', a root-relative reference is
\* put after the page's origin, a relative one is resolved against the
\* page URL, an absolute one is left as it is.
FourRules(ref, b) ==
    IF StartsWithHttp(ref) THEN ref
    ELSE IF StartsWithSlashes(ref) THEN Secure \o ref
    ELSE IF StartsWithSlash(ref) THEN SubSeq(b, 1, 3) \o ref
    ELSE urljoin(b, ref)

\* C21: what the extraction of a page returns are the src, href and
\* pattern matches of the page resolved by the four rules, whatever their
\* source, and every returned URL is absolute.
C21_SameRules ==
    doc.parsed =>
        /\ \A u \in html_js \cup text_js : StartsWithHttp(u)
        /\ html_js \cup text_js \subseteq
              {FourRules(r, doc.url) : r \in doc.src \cup doc.href \cup doc.matches}

\* ===================================================================
\* Further properties of crawl_for_js (specification SpecCrawl)
\* ===================================================================
NoDuplicates(q) == \A i, j \in 1..Len(q) : q[i] = q[j] => i = j

\* C22 as stated: to_visit never holds a URL twice, nor a URL of visited.
C22_FrontierDistinct ==
    /\ NoDuplicates(to_visit)
    /\ \A i \in 1..Len(to_visit) : to_visit[i] \notin visited

\* The URLs a step appends to to_visit are not in visited after the step.
C22_Appended ==
    to_visit' # to_visit =>
        \A i \in 1..Len(to_visit') :
            i >= Len(to_visit) => to_visit'[i] \notin visited'

\* C22, amended: a link is appended to to_visit only if it is not in
\* visited at that moment (it may be queued already, and a queued URL may
\* be visited later through an earlier copy); a copy that is popped after
\* its URL was visited is dropped, so no page is fetched twice.
C22_AppendedUnvisited == [](NoDuplicates(order)) /\ [][C22_Appended]_vars

\* The next URL of to_visit was visited through an earlier copy and is
\* about to be dropped.
C22_Witness ==
    /\ Looping
    /\ Head(to_visit) \in visited

\* The first occurrences of the elements of q, in order.
RECURSIVE Distinct(_)
Distinct(q) ==
    IF q = <<>>
      THEN <<>>
      ELSE LET rest == Distinct(SubSeq(q, 1, Len(q) - 1))
               x == q[Len(q)]
           IN IF \E i \in 1..Len(rest) : rest[i] = x
                THEN rest
                ELSE Append(rest, x)

Range(q) == {q[i] : i \in 1..Len(q)}

\* The breadth-first order of site w from a queue of discovered pages: a
\* page is queued once, when it is first discovered; pages of bad give no
\* links; at most n pages are taken.
RECURSIVE BreadthFirst(_, _, _, _, _)
BreadthFirst(w, bad, queue, found, n) ==
    IF queue = <<>> \/ n = 0
      THEN <<>>
      ELSE LET p == Head(queue)
               followed(l) == Mentions(domain, l) /\ l \notin found
               fresh == IF p \in bad
                          THEN <<>>
                          ELSE Distinct(SelectSeq(w.links[p], followed))
           IN <<p>> \o BreadthFirst(w, bad, Tail(queue) \o fresh,
                                    found \cup Range(fresh), n - 1)

\* C23: the pages are visited in the order in which they were first
\* appended to to_visit: the sequence of visited pages is the beginning of
\* the breadth-first order of the site, and all of it (up to the budget)
\* when the crawl has returned; that order is fixed by the site, the budget
\* and the pages that could not be fetched.
C23_BreadthFirst ==
    LET ref == BreadthFirst(web, fetch_failed, <<base_url>>, {base_url},
                            max_pages)
    IN /\ Len(order) <= Len(ref)
       /\ order = SubSeq(ref, 1, Len(order))
       /\ Returned => order = ref

\* The crawl has returned from a site whose root links to two pages, the
\* first of which links to the second: three pages visited in the order
\* of discovery.
C23_Witness ==
    /\ cpc = "done"
    /\ web.links[base_url] = <<PageOne, PageTwo>>
    /\ web.links[PageOne] = <<PageTwo>>
    /\ order = <<base_url, PageOne, PageTwo>>

C24_OneEntryPerUrl ==
    /\ NoDuplicates(all_js_files.keys)
    /\ DOMAIN all_js_files.val = Range(all_js_files.keys)
    /\ \A u \in DOMAIN all_js_files.val : all_js_files.val[u].url = u

C24_Step ==
    /\ \A u \in DOMAIN all_js_files.val :
          /\ u \in DOMAIN all_js_files'.val
          /\ all_js_files'.val[u] = all_js_files.val[u]
    /\ visited' # visited => hashed' \cap DOMAIN all_js_files.val = {}

\* C24: the inventory of a run has one entry per script URL, and an entry,
\* once made, keeps its hash and source page: a page visited later that
\* references the URL causes no download of it and no change of the entry.
C24_FirstHashWins == [](C24_OneEntryPerUrl) /\ [][C24_Step]_vars

\* a.js was found and hashed on the root page, and the first inner page,
\* which references it too, has been fetched and processed.
C24_Witness ==
    /\ "a.js" \in DOMAIN all_js_files.val
    /\ all_js_files.val["a.js"].source_page = base_url
    /\ "a.js" \in web.scripts[PageOne]
    /\ PageOne \in visited \ fetch_failed

\* ===================================================================
\* Properties of the snapshots (specification SpecSnap)
\* ===================================================================
\* The second a snapshot was written in, read from its timestamp.
WrittenAt(snap) == 10 * snap.timestamp[1] + snap.timestamp[2]

Snapshots(dir) == {dir[n] : n \in DOMAIN dir}

\* The snapshots of dir that are older than n others.
Rank(dir, n) ==
    {x \in Snapshots(dir) :
        Cardinality({y \in Snapshots(dir) : WrittenAt(y) > WrittenAt(x)}) = n}

OfDomain(tbl, d) == {r \in tbl : r.domain = d}
NotOfDomain(tbl, d) == {r \in tbl : r.domain # d}

\* A row without its id (AUTOINCREMENT counts the rows of all domains).
Content(r) == [x \in (DOMAIN r) \ {"id"} |-> r[x]]
Contents(tbl) == {Content(r) : r \in tbl}

\* A committed register_files for domain D left every row of the other
\* domains as it was, and made of D's rows what it makes of D's rows alone.
C26_RegisterFrame ==
    pc[1] = "reg_done" =>
        /\ NotOfDomain(js_files, req[1].domain)
             = NotOfDomain(before[1], req[1].domain)
        /\ Contents(OfDomain(js_files, req[1].domain))
             = Contents(register_files(OfDomain(before[1], req[1].domain),
                                       req[1].domain, req[1].files, req[1].now))

\* should_alert for domain D answers as it would with D's alerts alone.
C26_ShouldAlertFrame ==
    (pc[1] = "posted" /\ req[1].op = "should_alert") =>
        resp[1].should_alert
          = should_alert(OfDomain(alerts, req[1].data.domain), req[1].data,
                         req[1].now)

\* record_alert for domain D leaves the alerts of the other domains as they
\* were, and succeeds as it would with D's alerts alone.
C26_RecordFrame ==
    (pc[1] = "idle" /\ pc'[1] = "posted" /\ req'[1].op = "record_alert") =>
        /\ NotOfDomain(alerts', req'[1].data.domain)
             = NotOfDomain(alerts, req'[1].data.domain)
        /\ resp'[1].status = 200
             <=> AlertsUnique(OfDomain(alerts, req'[1].data.domain), req'[1].data)

\* C26: register_files, should_alert and record_alert for domain D read
\* and modify only state keyed by D: a reconcile of D leaves the rows of
\* every other domain unchanged, and an alert recorded for D does not
\* suppress the same alert under another domain.
C26_DomainIsolation ==
    [](C26_RegisterFrame /\ C26_ShouldAlertFrame) /\ [][C26_RecordFrame]_vars

\* Both sites track a.js, the alert for content h2 of a.js is recorded for
\* example.com, and should_alert answers true for the same alert of
\* other.org.
C26_Witness ==
    /\ OfDomain(js_files, "example.com") # {}
    /\ OfDomain(js_files, "other.org") # {}
    /\ \E r \in alerts :
          KeyOf(r) = AlertKey("example.com", "a.js", "modified_file", "h2")
    /\ pc[1] = "posted"
    /\ req[1].op = "should_alert"
    /\ req[1].data = AlertKey("other.org", "a.js", "modified_file", "h2")
    /\ resp[1].should_alert

\* ===================================================================
\* Properties of check_new_files (specification Spec)
\* ===================================================================
InList(files, f) == \E i \in 1..Len(files) : files[i] = f

\* The rows of the request's domain for the URL of file f, and the active
\* ones among them.
RowsFor(f) == {r \in js_files : r.domain = req[1].domain /\ r.url = f.url}
ActiveFor(f) == {r \in RowsFor(f) : r.is_active}

\* Each submitted file is new iff its URL has no active row, modified iff
\* it has an active row with another hash, in neither list iff it has an
\* active row with its hash, and never in both lists.
C27_Classified ==
    pc[1] = "chk_done" =>
        \A i \in 1..Len(req[1].files) :
            LET f == req[1].files[i]
                new == InList(resp[1].body.new_files, f)
                modified == InList(resp[1].body.modified_files, f)
            IN /\ new <=> ActiveFor(f) = {}
               /\ modified <=> \E r \in ActiveFor(f) : r.hash # f.hash
               /\ (~new /\ ~modified) <=> \E r \in ActiveFor(f) : r.hash = f.hash
               /\ ~(new /\ modified)

\* Rows are never deleted and every row is inserted active: a URL has been
\* seen active iff it has a row.
C27_AbsentNeverSeen ==
    pc[1] = "chk_done" =>
        \A i \in 1..Len(req[1].files) :
            ActiveFor(req[1].files[i]) = {} => RowsFor(req[1].files[i]) = {}

====
